---- MODULE Spec2Model ----
(***************************************************************************)
(* Environment Canada HRDPS weather microservice (src/app.py).             *)
(*                                                                         *)
(* The model follows one request through get_weather or bvlos_assessment.  *)
(* A handler blocks only inside requests.get, so the atomic steps are: the *)
(* handler's entry (parse, validate, first resolver call), the sending of  *)
(* one upstream query, the arrival of its answer, and the return of        *)
(* try_layer_with_alternates together with the handler code that runs up   *)
(* to the next resolver call (or to the response).                         *)
(*                                                                         *)
(* Numbers.  A Python float is a record [kind, num]: kind "num" with num   *)
(* the value in hundredths (fixed point, two decimals), kind "nan" for     *)
(* IEEE NaN, kind "none" for Python None.  Knots are kept in units of      *)
(* 10^-7 kt so that the factor 1.94384 is exact.                           *)
(***************************************************************************)
EXTENDS Integers, Sequences, FiniteSets, TLC

VARIABLES
    HRDPS_LAYER_ALTERNATES, \* the module-level dict of alternate layer ids
    request,                \* the request being served: [endpoint, args] or NoRequest
    pc,                     \* position of the handler: "idle", a call site, "done"
    call,                   \* the running try_layer_with_alternates call
    frame,                  \* the handler's local variables
    queries,                \* upstream queries issued for this request, in order
    components,             \* what the upstream's eastward/northward wind fields hold
    response                \* the HTTP response: [code, body] or NoResponse

vars == <<HRDPS_LAYER_ALTERNATES, request, pc, call, frame, queries, components, response>>

-----------------------------------------------------------------------------
(* Python values *)

Num(n) == [kind |-> "num", num |-> n]
NaN == [kind |-> "nan", num |-> 0]
PyNone == [kind |-> "none", num |-> 0]

IsNum(x) == x.kind = "num"

\* IEEE comparisons: every comparison with NaN is false.
Lt(a, b) == IsNum(a) /\ IsNum(b) /\ a.num < b.num
Le(a, b) == IsNum(a) /\ IsNum(b) /\ a.num <= b.num
Gt(a, b) == Lt(b, a)

Abs(n) == IF n < 0 THEN -n ELSE n

\* n/d rounded to the nearest integer, ties to even (Python's round), d > 0.
RoundDiv(n, d) ==
    LET q == n \div d
        r == n % d
    IN  IF 2 * r < d THEN q
        ELSE IF 2 * r > d THEN q + 1
        ELSE IF q % 2 = 0 THEN q ELSE q + 1

\* round(x, 1) of a float in units of 1/unit: the result is in tenths.
\* round(nan, 1) is nan.
Round1(x, unit) == IF IsNum(x) THEN Num(RoundDiv(x.num, unit \div 10)) ELSE x

\* round(x, 2) and round(x, 6) of a two-decimal fixed-point number: unchanged.
RoundFine(x) == x

\* round(x) with no digits returns an int and raises ValueError on NaN.
RoundIntRaises(x) == ~IsNum(x)
RoundInt(x) == Num(RoundDiv(x.num, 100))

\* dict helpers: d[k] = v, and a dict as a function on its keys.
Put(d, k, v) == (k :> v) @@ d
Has(d, k) == k \in DOMAIN d
EmptyDict == <<>>

Digits(n) == ToString(n)

\* f"{x:.1f}" for x given in tenths.
Fmt1(t) ==
    IF ~IsNum(t) THEN "nan"
    ELSE (IF t.num < 0 THEN "-" ELSE "") \o Digits(Abs(t.num) \div 10)
            \o "." \o Digits(Abs(t.num) % 10)

\* f"{x}" (repr) of a float given in hundredths.
FmtFloat(x) ==
    IF ~IsNum(x) THEN "nan"
    ELSE LET a == Abs(x.num)
             q == a \div 100
             r == a % 100
         IN  (IF x.num < 0 THEN "-" ELSE "") \o Digits(q) \o "."
                \o (IF r % 10 = 0 THEN Digits(r \div 10)
                    ELSE (IF r < 10 THEN "0" ELSE "") \o Digits(r))

-----------------------------------------------------------------------------
(* Configuration *)

HRDPS_LAYERS ==
    [v \in {"temperature", "wind_speed", "wind_gust", "wind_direction",
            "pressure", "precip_accum", "specific_humidity", "cloud_cover"} |->
        CASE v = "temperature" -> "HRDPS.CONTINENTAL_TT"
          [] v = "wind_speed" -> "HRDPS.CONTINENTAL_WSPD"
          [] v = "wind_gust" -> "HRDPS.CONTINENTAL_GUST"
          [] v = "wind_direction" -> "HRDPS.CONTINENTAL_WD"
          [] v = "pressure" -> "HRDPS.CONTINENTAL_P0"
          [] v = "precip_accum" -> "HRDPS.CONTINENTAL_PR"
          [] v = "specific_humidity" -> "HRDPS.CONTINENTAL_HU"
          [] v = "cloud_cover" -> "HRDPS.CONTINENTAL_TCDC"]

\* HRDPS_LAYER_ALTERNATES = {} as the program ships it.
ShippedAlternates == EmptyDict

\* mps * 1.94384, the result in units of 10^-7 kt.
KnotsFactor == 194384
KnotsUnit == 100 * 100000
mps_to_knots(mps) == IF IsNum(mps) THEN Num(mps.num * KnotsFactor) ELSE mps

\* A threshold given in kt (hundredths) in the unit of mps_to_knots.
AsKnots(x) == IF IsNum(x) THEN Num(x.num * (KnotsUnit \div 100)) ELSE x

-----------------------------------------------------------------------------
(* calculate_wind_speed_direction *)

\* floor of the square root
ISqrt(n) == CHOOSE r \in 0..(n + 1) : r * r <= n /\ n < (r + 1) * (r + 1)

\* np.degrees(np.arctan2(y, x)) on the axes and the diagonals, where it is a
\* whole number of degrees. A zero argument here is the negation of a
\* positive zero, -0.0: arctan2(-0.0, x) is -180 for x < 0 and -0.0 for
\* x > 0, arctan2(-0.0, -0.0) is -180.
Atan2Deg(y, x) ==
    CASE y = 0 /\ x > 0 -> 0
      [] y = 0 /\ x <= 0 -> -180
      [] x = 0 /\ y > 0 -> 90
      [] x = 0 /\ y < 0 -> -90
      [] x > 0 /\ y = x -> 45
      [] x > 0 /\ y = -x -> -45
      [] x < 0 /\ y = -x -> 135
      [] x < 0 /\ y = x -> -135

\* Returns (speed, direction); the speed is cut to two decimals.
calculate_wind_speed_direction(u, v) ==
    IF IsNum(u) /\ IsNum(v)
    THEN [speed |-> Num(ISqrt(u.num * u.num + v.num * v.num)),
          direction |-> Num(((Atan2Deg(-u.num, -v.num) + 360) % 360) * 100)]
    ELSE [speed |-> NaN, direction |-> NaN]

-----------------------------------------------------------------------------
(* The upstream service *)

ComponentVars == {"wind_u", "wind_v"}

\* The values a layer of the variable can hold at the requested point.
\* A grid cell without data decodes to NaN.
LayerValues(var) ==
    CASE var = "temperature" -> {Num(-2200), Num(-2000), Num(4500)}
      [] var = "wind_speed" -> {Num(1000), Num(1100)}
      [] var = "wind_direction" -> {Num(9000), NaN}
      [] var = "wind_gust" -> {Num(1200), Num(1300)}
      [] var = "precip_accum" -> {Num(100), Num(500), Num(600)}
      [] var = "cloud_cover" -> {Num(5000), NaN}
      [] var = "specific_humidity" -> {Num(1)}
      [] var = "pressure" -> {Num(10130000)}
      [] var = "wind_u" -> {Num(-500)}
      [] var = "wind_v" -> {Num(0), Num(500)}

\* The ways a query fails: raise_for_status (HTTPError), and everything the
\* generic handler catches (connection error, timeout, unreadable payload).
FailureKinds == {"http_error", "connection_error", "timeout", "bad_payload"}

UpstreamSuccess(v) == [status |-> "success", value |-> v]
UpstreamFailure == [status |-> "error", value |-> PyNone]

ComponentStates ==
    [ComponentVars ->
        {UpstreamFailure} \cup
        {UpstreamSuccess(v) : v \in LayerValues("wind_u") \cup LayerValues("wind_v")}]

\* The states of the two component fields: each fails or holds one of its values.
ComponentChoices ==
    {c \in ComponentStates :
        \A var \in ComponentVars :
            c[var].status = "success" => c[var].value \in LayerValues(var)}

NoComponents == EmptyDict

-----------------------------------------------------------------------------
(* fetch_layer_value and try_layer_with_alternates *)

\* The dict fetch_layer_value returns on success (units are not modelled).
FetchSuccess(layer_id, v) == [value |-> v, layer |-> layer_id, status |-> "success"]

NotAvailableResult(var_name) ==
    [value |-> PyNone, status |-> "not_available", variable |-> var_name]

Succeeded(result) == result.status = "success"

\* The layer ids one call tries, in order: the primary, if the variable has
\* one, then HRDPS_LAYER_ALTERNATES.get(var_name, []).
Alternates(alts, var_name) == IF Has(alts, var_name) THEN alts[var_name] ELSE <<>>
Candidates(alts, var_name) ==
    (IF Has(HRDPS_LAYERS, var_name) THEN <<HRDPS_LAYERS[var_name]>> ELSE <<>>)
        \o Alternates(alts, var_name)

NoCall == [variable |-> "", idx |-> 0, inflight |-> FALSE]
NewCall(var_name) == [variable |-> var_name, idx |-> 1, inflight |-> FALSE]

-----------------------------------------------------------------------------
(* Request parameters *)

\* float(s) for the literals the requests use; any other string raises
\* ValueError, and float(None) raises TypeError.
FloatLiterals ==
    [s \in {"39.9", "40", "85", "85.1", "-145.1", "-145", "-50", "-49.9",
            "15", "30", "-30", "35", "nan"} |->
        CASE s = "39.9" -> Num(3990)
          [] s = "40" -> Num(4000)
          [] s = "85" -> Num(8500)
          [] s = "85.1" -> Num(8510)
          [] s = "-145.1" -> Num(-14510)
          [] s = "-145" -> Num(-14500)
          [] s = "-50" -> Num(-5000)
          [] s = "-49.9" -> Num(-4990)
          [] s = "15" -> Num(1500)
          [] s = "30" -> Num(3000)
          [] s = "-30" -> Num(-3000)
          [] s = "35" -> Num(3500)
          [] s = "nan" -> NaN]

\* request.args.get(k): the raw string, or None when the key is absent.
ArgGet(args, k) ==
    IF Has(args, k) THEN [present |-> TRUE, raw |-> args[k]]
    ELSE [present |-> FALSE, raw |-> ""]

FloatRaises(a) == ~a.present \/ a.raw \notin DOMAIN FloatLiterals
Float(a) == FloatLiterals[a.raw]

\* float(request.args.get(k, default)) with a numeric default.
FloatOrDefaultRaises(args, k) == Has(args, k) /\ args[k] \notin DOMAIN FloatLiterals
FloatOrDefault(args, k, default) ==
    IF Has(args, k) THEN FloatLiterals[args[k]] ELSE default

\* InCoverage with the latitude checked against the pole instead of 85.
InCoverageToPole(lat, lon) ==
    /\ Le(Num(4000), lat) /\ Le(lat, Num(9000))
    /\ Le(Num(-14500), lon) /\ Le(lon, Num(-5000))

\* 40 <= lat <= 85 and -145 <= lon <= -50
InCoverage(lat, lon) ==
    /\ Le(Num(4000), lat) /\ Le(lat, Num(8500))
    /\ Le(Num(-14500), lon) /\ Le(lon, Num(-5000))

Absent == "<absent>"

\* A query string as a dict: the keys that are present.
QueryDict(choice) == [k \in {k \in DOMAIN choice : choice[k] # Absent} |-> choice[k]]

\* The coordinates requests carry: the corners of the coverage box, and
\* coordinates that are missing, malformed, NaN or just outside one side.
Coordinates ==
    {[lat |-> "40", lon |-> "-145"], [lat |-> "85", lon |-> "-50"],
     [lat |-> Absent, lon |-> "-50"], [lat |-> "40", lon |-> Absent],
     [lat |-> "abc", lon |-> "-50"], [lat |-> "nan", lon |-> "-50"],
     [lat |-> "39.9", lon |-> "-50"], [lat |-> "85.1", lon |-> "-145"],
     [lat |-> "40", lon |-> "-145.1"], [lat |-> "85", lon |-> "-49.9"],
     [lat |-> "85.1", lon |-> Absent], [lat |-> "39.9", lon |-> "-49.9"]}

WeatherRequests == {QueryDict(c) : c \in Coordinates}

BvlosRequests ==
    {QueryDict(c @@ t) :
        c \in Coordinates,
        t \in [max_wind_kts : {Absent, "15", "abc"},
               max_gust_kts : {Absent, "30"},
               min_temp_c : {Absent, "-30"},
               max_temp_c : {Absent, "35"}]}

NoRequest == [endpoint |-> "", args |-> EmptyDict]
NoResponse == [code |-> 0, body |-> EmptyDict]

\* datetime.now(timezone.utc).isoformat(): the clock is not modelled.
Timestamp == "utc-now"

-----------------------------------------------------------------------------
(* Handler frames *)

EmptyFrame ==
    [results |-> EmptyDict, errors |-> <<>>, conditions |-> EmptyDict,
     issues |-> <<>>, max_wind |-> PyNone, max_gust |-> PyNone, res |-> EmptyDict]

SetResult(f, k, v) == [f EXCEPT !.results = Put(@, k, v)]
SetCondition(f, k, v) == [f EXCEPT !.conditions = Put(@, k, v)]
AddError(f, name) == [f EXCEPT !.errors = Append(@, name)]
AddIssue(f, issue) == [f EXCEPT !.issues = Append(@, issue)]
SetLocal(f, name, result) == [f EXCEPT !.res = Put(@, name, result)]

Goto(site, f) == [pc |-> site, frame |-> f, response |-> NoResponse]
Respond(code, body, f) ==
    [pc |-> "done", frame |-> f, response |-> [code |-> code, body |-> body]]

\* An exception no handler catches: the framework answers 500.
Raise(f) == Respond(500, EmptyDict, f)

\* The variable each call site passes to try_layer_with_alternates.
VarAt(site) ==
    CASE site \in {"w_temperature", "b_temperature"} -> "temperature"
      [] site \in {"w_wind_speed", "b_wind_speed"} -> "wind_speed"
      [] site = "w_wind_direction" -> "wind_direction"
      [] site \in {"w_wind_u", "b_wind_u"} -> "wind_u"
      [] site \in {"w_wind_v", "b_wind_v"} -> "wind_v"
      [] site \in {"w_wind_gust", "b_wind_gust"} -> "wind_gust"
      [] site \in {"w_precip", "b_precip"} -> "precip_accum"
      [] site = "w_cloud_cover" -> "cloud_cover"
      [] site = "w_humidity" -> "specific_humidity"

-----------------------------------------------------------------------------
(* get_weather *)

\* Lines 229-255: parse, validate, build the fixed part of the results.
get_weather_entry(args) ==
    IF FloatRaises(ArgGet(args, "lat")) \/ FloatRaises(ArgGet(args, "lon"))
    THEN Respond(400, [error |-> "Invalid or missing lat/lon parameters",
                       usage |-> "/weather?lat=46.3&lon=-79.5"], EmptyFrame)
    ELSE LET lat == Float(ArgGet(args, "lat"))
             lon == Float(ArgGet(args, "lon"))
         IN  IF ~InCoverage(lat, lon)
             THEN Respond(400, [error |-> "Coordinates outside HRDPS coverage area",
                                coverage |-> "Approximately 40N to 85N, 145W to 50W"],
                          EmptyFrame)
             ELSE Goto("w_temperature",
                       [EmptyFrame EXCEPT !.results =
                           [location |-> [lat |-> lat, lon |-> lon],
                            data_source |-> "Environment Canada HRDPS",
                            resolution_km |-> Num(250),
                            forecast_hours |-> Num(4800),
                            timestamp |-> Timestamp]])

\* Lines 285-288, then the wind gust call.
weather_wind_direction(f) ==
    LET wind_dir_result == f.res["wind_dir_result"]
    IN  IF Succeeded(wind_dir_result)
        THEN IF RoundIntRaises(wind_dir_result.value)
             THEN Raise(f)
             ELSE Goto("w_wind_gust",
                       SetResult(f, "wind_direction_deg", RoundInt(wind_dir_result.value)))
        ELSE IF ~Has(f.results, "wind_direction_deg")
             THEN Goto("w_wind_gust", AddError(f, "wind_direction"))
             ELSE Goto("w_wind_gust", f)

\* Lines 268-283, entered when both wind results are in.
weather_wind_speed(f) ==
    LET wind_speed_result == f.res["wind_speed_result"]
    IN  IF Succeeded(wind_speed_result)
        THEN LET speed_mps == wind_speed_result.value
             IN  weather_wind_direction(
                     SetResult(SetResult(f, "wind_speed_mps", Round1(speed_mps, 100)),
                               "wind_speed_kts", Round1(mps_to_knots(speed_mps), KnotsUnit)))
        ELSE Goto("w_wind_u", f)

\* Lines 277-283, entered when u_result and v_result are in.
weather_wind_components(f) ==
    LET u_result == f.res["u_result"]
        v_result == f.res["v_result"]
    IN  IF Succeeded(u_result) /\ Succeeded(v_result)
        THEN LET sd == calculate_wind_speed_direction(u_result.value, v_result.value)
             IN  IF RoundIntRaises(sd.direction)
                 THEN Raise(f)
                 ELSE weather_wind_direction(
                         SetResult(SetResult(SetResult(f,
                             "wind_speed_mps", Round1(sd.speed, 100)),
                             "wind_speed_kts", Round1(mps_to_knots(sd.speed), KnotsUnit)),
                             "wind_direction_deg", RoundInt(sd.direction)))
        ELSE weather_wind_direction(AddError(f, "wind_speed"))

\* weather_finish that writes unavailable_data whether or not anything failed.
weather_finish_always_lists(f) ==
    Respond(200,
            Put(Put(f.results, "unavailable_data", f.errors), "note",
                "Some data layers unavailable; layer names may need adjustment"),
            f)

\* Lines 325-329.
weather_finish(f) ==
    IF f.errors # <<>>
    THEN Respond(200,
                 Put(Put(f.results, "unavailable_data", f.errors), "note",
                     "Some data layers unavailable; layer names may need adjustment"),
                 f)
    ELSE Respond(200, f.results, f)

\* The handler from the return of the resolver call at `site` to the next
\* resolver call or to the response.
get_weather_step(site, f, result) ==
    CASE site = "w_temperature" ->
            Goto("w_wind_speed",
                 IF Succeeded(result)
                 THEN SetResult(SetLocal(f, "temp_result", result),
                                "temperature_c", Round1(result.value, 100))
                 ELSE AddError(SetLocal(f, "temp_result", result), "temperature"))
      [] site = "w_wind_speed" ->
            Goto("w_wind_direction", SetLocal(f, "wind_speed_result", result))
      [] site = "w_wind_direction" ->
            weather_wind_speed(SetLocal(f, "wind_dir_result", result))
      [] site = "w_wind_u" ->
            Goto("w_wind_v", SetLocal(f, "u_result", result))
      [] site = "w_wind_v" ->
            weather_wind_components(SetLocal(f, "v_result", result))
      [] site = "w_wind_gust" ->
            Goto("w_precip",
                 IF Succeeded(result)
                 THEN SetResult(SetResult(SetLocal(f, "gust_result", result),
                          "wind_gust_mps", Round1(result.value, 100)),
                          "wind_gust_kts", Round1(mps_to_knots(result.value), KnotsUnit))
                 ELSE AddError(SetLocal(f, "gust_result", result), "wind_gust"))
      [] site = "w_precip" ->
            Goto("w_cloud_cover",
                 IF Succeeded(result)
                 THEN SetResult(SetResult(SetLocal(f, "precip_result", result),
                          "precipitation_mm", RoundFine(result.value)),
                          "precipitation_note", "Accumulated precipitation (kg/m2 ~ mm)")
                 ELSE AddError(SetLocal(f, "precip_result", result), "precipitation"))
      [] site = "w_cloud_cover" ->
            IF Succeeded(result)
            THEN IF RoundIntRaises(result.value)
                 THEN Raise(SetLocal(f, "cloud_result", result))
                 ELSE Goto("w_humidity",
                           SetResult(SetLocal(f, "cloud_result", result),
                                     "cloud_cover_pct", RoundInt(result.value)))
            ELSE Goto("w_humidity", AddError(SetLocal(f, "cloud_result", result), "cloud_cover"))
      [] site = "w_humidity" ->
            weather_finish(
                IF Succeeded(result)
                THEN SetResult(SetResult(SetLocal(f, "humidity_result", result),
                         "specific_humidity_kgkg", RoundFine(result.value)),
                         "humidity_note", "Specific humidity (kg/kg), not relative humidity")
                ELSE AddError(SetLocal(f, "humidity_result", result), "humidity"))

-----------------------------------------------------------------------------
(* bvlos_assessment *)

\* The issue texts, word by word. The degree sign of the cold issue is left out.
WindIssue(speed_kts, max_wind) ==
    <<"Wind", Fmt1(Round1(speed_kts, KnotsUnit)), "kts", "exceeds",
      FmtFloat(max_wind), "kts", "limit">>
GustIssue(gust_kts, max_gust) ==
    <<"Gusts", Fmt1(Round1(gust_kts, KnotsUnit)), "kts", "exceeds",
      FmtFloat(max_gust), "kts", "limit">>
WindUnavailableIssue == <<"Wind", "speed", "data", "unavailable">>
ColdIssue(temp) == <<"Extreme", "cold:", Fmt1(Round1(temp, 100)) \o "C">>
HeavyIssue(precip_mm) == <<"Heavy", "precipitation:", Fmt1(Round1(precip_mm, 100)), "mm">>
\* ModerateIssue with a wording none of the keywords matches.
LightIssue(precip_mm) ==
    <<"Light", "precipitation:", Fmt1(Round1(precip_mm, 100)), "mm">>
ModerateIssue(precip_mm) ==
    <<"Moderate", "precipitation:", Fmt1(Round1(precip_mm, 100)), "mm">>

\* ExtremeCold with <= for <.
ExtremeColdInclusive(temp) == Le(temp, Num(-2000))

\* temp_result["value"] < -20
ExtremeCold(temp) == Lt(temp, Num(-2000))
\* precip_mm > 5.0, precip_mm > 1.0
HeavyPrecip(precip_mm) == Gt(precip_mm, Num(500))
ModeratePrecip(precip_mm) == Gt(precip_mm, Num(100))

\* `word in issue`: the keywords are whole words of the texts.
Contains(issue, word) == \E k \in DOMAIN issue : issue[k] = word
AnyContains(issues, words) ==
    \E i \in DOMAIN issues : \E w \in words : Contains(issues[i], w)

RedWords == {"exceeds", "Heavy", "Extreme"}
YellowWords == {"unavailable", "Moderate"}

\* overall_status with the first two rules in the other order.
overall_status_yellow_first(issues) ==
    IF AnyContains(issues, YellowWords)
    THEN [status |-> "YELLOW", recommendation |-> "CAUTION: Review conditions carefully"]
    ELSE IF AnyContains(issues, RedWords)
    THEN [status |-> "RED", recommendation |-> "NO-GO: Conditions exceed safe limits"]
    ELSE IF issues = <<>>
    THEN [status |-> "GREEN", recommendation |-> "GO: Conditions within limits"]
    ELSE [status |-> "YELLOW", recommendation |-> "CAUTION: Minor concerns noted"]

\* Lines 421-432.
overall_status(issues) ==
    IF AnyContains(issues, RedWords)
    THEN [status |-> "RED", recommendation |-> "NO-GO: Conditions exceed safe limits"]
    ELSE IF AnyContains(issues, YellowWords)
    THEN [status |-> "YELLOW", recommendation |-> "CAUTION: Review conditions carefully"]
    ELSE IF issues = <<>>
    THEN [status |-> "GREEN", recommendation |-> "GO: Conditions within limits"]
    ELSE [status |-> "YELLOW", recommendation |-> "CAUTION: Minor concerns noted"]

\* Lines 346-370.
bvlos_entry(args) ==
    IF \/ FloatRaises(ArgGet(args, "lat")) \/ FloatRaises(ArgGet(args, "lon"))
       \/ FloatOrDefaultRaises(args, "max_wind_kts")
       \/ FloatOrDefaultRaises(args, "max_gust_kts")
    THEN Respond(400, [error |-> "Invalid parameters"], EmptyFrame)
    ELSE LET lat == Float(ArgGet(args, "lat"))
             lon == Float(ArgGet(args, "lon"))
             max_wind == FloatOrDefault(args, "max_wind_kts", Num(2000))
             max_gust == FloatOrDefault(args, "max_gust_kts", Num(2500))
         IN  IF ~InCoverage(lat, lon)
             THEN Respond(400, [error |-> "Coordinates outside HRDPS coverage"], EmptyFrame)
             ELSE Goto("b_wind_speed",
                       [EmptyFrame EXCEPT
                           !.max_wind = max_wind,
                           !.max_gust = max_gust,
                           !.results =
                               [location |-> [lat |-> lat, lon |-> lon],
                                thresholds |-> [max_wind_kts |-> max_wind,
                                                max_gust_kts |-> max_gust],
                                timestamp |-> Timestamp,
                                data_source |->
                                    "Environment Canada HRDPS (2.5km resolution)"]])

\* Lines 375-378 and 385-388: record the speed and compare it with the limit.
bvlos_wind(f, speed_mps) ==
    LET speed_kts == mps_to_knots(speed_mps)
        g == SetCondition(f, "wind_speed_kts", Round1(speed_kts, KnotsUnit))
    IN  IF Gt(speed_kts, AsKnots(f.max_wind))
        THEN AddIssue(g, WindIssue(speed_kts, f.max_wind))
        ELSE g

\* bvlos_gust that reports a missing gust as an issue.
bvlos_gust_reports_missing(f, result) ==
    IF Succeeded(result)
    THEN LET gust_kts == mps_to_knots(result.value)
             g == SetCondition(f, "wind_gust_kts", Round1(gust_kts, KnotsUnit))
         IN  IF Gt(gust_kts, AsKnots(f.max_gust))
             THEN AddIssue(g, GustIssue(gust_kts, f.max_gust))
             ELSE g
    ELSE AddIssue(SetCondition(f, "wind_gust_kts", PyNone),
                  <<"Gust", "data", "unavailable">>)

\* Lines 394-400.
bvlos_gust(f, result) ==
    IF Succeeded(result)
    THEN LET gust_kts == mps_to_knots(result.value)
             g == SetCondition(f, "wind_gust_kts", Round1(gust_kts, KnotsUnit))
         IN  IF Gt(gust_kts, AsKnots(f.max_gust))
             THEN AddIssue(g, GustIssue(gust_kts, f.max_gust))
             ELSE g
    ELSE SetCondition(f, "wind_gust_kts", PyNone)

\* Lines 404-407.
bvlos_temperature(f, result) ==
    IF Succeeded(result)
    THEN LET g == SetCondition(f, "temperature_c", Round1(result.value, 100))
         IN  IF ExtremeCold(result.value) THEN AddIssue(g, ColdIssue(result.value)) ELSE g
    ELSE f

\* Lines 411-418.
bvlos_precip(f, result) ==
    IF Succeeded(result)
    THEN LET precip_mm == result.value
             g == SetCondition(f, "precipitation_mm", RoundFine(precip_mm))
         IN  IF HeavyPrecip(precip_mm) THEN AddIssue(g, HeavyIssue(precip_mm))
             ELSE IF ModeratePrecip(precip_mm) THEN AddIssue(g, ModerateIssue(precip_mm))
             ELSE g
    ELSE f

\* Lines 420-439.
bvlos_finish(f) ==
    LET verdict == overall_status(f.issues)
    IN  Respond(200,
                Put(Put(Put(Put(f.results, "conditions", f.conditions),
                    "issues", f.issues),
                    "status", verdict.status),
                    "recommendation", verdict.recommendation),
                f)

bvlos_assessment_step(site, f, result) ==
    CASE site = "b_wind_speed" ->
            IF Succeeded(result)
            THEN Goto("b_wind_gust",
                      bvlos_wind(SetLocal(f, "wind_result", result), result.value))
            ELSE Goto("b_wind_u", SetLocal(f, "wind_result", result))
      [] site = "b_wind_u" ->
            Goto("b_wind_v", SetLocal(f, "u_result", result))
      [] site = "b_wind_v" ->
            LET u_result == f.res["u_result"]
                g == SetLocal(f, "v_result", result)
            IN  IF Succeeded(u_result) /\ Succeeded(result)
                THEN Goto("b_wind_gust",
                          bvlos_wind(g, calculate_wind_speed_direction(
                                            u_result.value, result.value).speed))
                ELSE Goto("b_wind_gust", AddIssue(g, WindUnavailableIssue))
      [] site = "b_wind_gust" ->
            Goto("b_temperature", bvlos_gust(SetLocal(f, "gust_result", result), result))
      [] site = "b_temperature" ->
            Goto("b_precip", bvlos_temperature(SetLocal(f, "temp_result", result), result))
      [] site = "b_precip" ->
            bvlos_finish(bvlos_precip(SetLocal(f, "precip_result", result), result))

WeatherSites == {"w_temperature", "w_wind_speed", "w_wind_direction", "w_wind_u",
                 "w_wind_v", "w_wind_gust", "w_precip", "w_cloud_cover", "w_humidity"}

handler_step(site, f, result) ==
    IF site \in WeatherSites THEN get_weather_step(site, f, result)
    ELSE bvlos_assessment_step(site, f, result)

-----------------------------------------------------------------------------
(* Actions *)

MaxAlternates == 2

\* The alternates the source names for wind gust and wind direction, and the
\* component layers for wind_u / wind_v.
KnownAlternates ==
    [v \in {"wind_gust", "wind_direction", "wind_u", "wind_v"} |->
        CASE v = "wind_gust" -> <<"HRDPS.CONTINENTAL_WGST", "HRDPS-WEonG_2.5km_WindGust">>
          [] v = "wind_direction" -> <<"HRDPS.CONTINENTAL_DD", "HRDPS.CONTINENTAL_WDIR">>
          [] v = "wind_u" -> <<"HRDPS.CONTINENTAL_UU">>
          [] v = "wind_v" -> <<"HRDPS.CONTINENTAL_VV">>]

Min(a, b) == IF a < b THEN a ELSE b

\* The configurations with at most n alternates per variable.
AlternateConfigs ==
    {[v \in DOMAIN KnownAlternates |->
         SubSeq(KnownAlternates[v], 1, Min(n, Len(KnownAlternates[v])))] :
        n \in 0..MaxAlternates}

InitWith(alts) ==
    /\ HRDPS_LAYER_ALTERNATES = alts
    /\ request = NoRequest
    /\ pc = "idle"
    /\ call = NoCall
    /\ frame = EmptyFrame
    /\ queries = <<>>
    /\ components = NoComponents
    /\ response = NoResponse

Init == InitWith(ShippedAlternates)

InitAlternates == \E alts \in AlternateConfigs : InitWith(alts)

\* The handler has reached `nxt`: start the resolver call of its call site.
Enter(nxt) ==
    /\ pc' = nxt.pc
    /\ frame' = nxt.frame
    /\ response' = nxt.response
    /\ call' = IF nxt.pc = "done" THEN NoCall ELSE NewCall(VarAt(nxt.pc))
    /\ IF nxt.pc \in {"w_wind_u", "b_wind_u"}
       THEN components' \in ComponentChoices
       ELSE components' = components

GetWeather(args) ==
    /\ pc = "idle"
    /\ request' = [endpoint |-> "/weather", args |-> args]
    /\ queries' = <<>>
    /\ Enter(get_weather_entry(args))
    /\ UNCHANGED HRDPS_LAYER_ALTERNATES

BvlosAssessment(args) ==
    /\ pc = "idle"
    /\ request' = [endpoint |-> "/bvlos-assessment", args |-> args]
    /\ queries' = <<>>
    /\ Enter(bvlos_entry(args))
    /\ UNCHANGED HRDPS_LAYER_ALTERNATES

Running == pc \notin {"idle", "done"}

CallCandidates == Candidates(HRDPS_LAYER_ALTERNATES, call.variable)

\* fetch_layer_value up to requests.get: the query leaves.
SendQuery ==
    /\ Running
    /\ ~call.inflight
    /\ call.idx <= Len(CallCandidates)
    /\ call' = [call EXCEPT !.inflight = TRUE]
    /\ queries' = Append(queries, [variable |-> call.variable,
                                   layer |-> CallCandidates[call.idx],
                                   status |-> "pending"])
    /\ UNCHANGED <<HRDPS_LAYER_ALTERNATES, request, pc, frame, components, response>>

Settle(status) == [queries EXCEPT ![Len(queries)].status = status]

\* What the upstream can answer for the variable of the running call.
CanSucceed(v) ==
    /\ v \in LayerValues(call.variable)
    /\ call.variable \in ComponentVars =>
            components[call.variable] = UpstreamSuccess(v)
CanFail ==
    call.variable \in ComponentVars => components[call.variable] = UpstreamFailure

\* ReceiveSuccess without the early return: the resolver goes on to the
\* next layer id after a success.
ReceiveSuccessNoReturn(v) ==
    /\ Running
    /\ call.inflight
    /\ CanSucceed(v)
    /\ queries' = Settle("success")
    /\ call' = [call EXCEPT !.inflight = FALSE, !.idx = @ + 1]
    /\ UNCHANGED <<HRDPS_LAYER_ALTERNATES, request, pc, frame, components, response>>

\* The query succeeds: fetch_layer_value returns the value and
\* try_layer_with_alternates returns it to the handler.
ReceiveSuccess(v) ==
    /\ Running
    /\ call.inflight
    /\ CanSucceed(v)
    /\ queries' = Settle("success")
    /\ Enter(handler_step(pc, frame, FetchSuccess(CallCandidates[call.idx], v)))
    /\ UNCHANGED <<HRDPS_LAYER_ALTERNATES, request>>

\* The query fails: fetch_layer_value returns status "error" and the
\* resolver moves on to the next layer id.
ReceiveError(kind) ==
    /\ Running
    /\ call.inflight
    /\ CanFail
    /\ queries' = Settle("error")
    /\ call' = [call EXCEPT !.inflight = FALSE, !.idx = @ + 1]
    /\ UNCHANGED <<HRDPS_LAYER_ALTERNATES, request, pc, frame, components, response>>

\* No layer id is left: try_layer_with_alternates returns not_available.
ReturnNotAvailable ==
    /\ Running
    /\ ~call.inflight
    /\ call.idx > Len(CallCandidates)
    /\ Enter(handler_step(pc, frame, NotAvailableResult(call.variable)))
    /\ UNCHANGED <<HRDPS_LAYER_ALTERNATES, request, queries>>

\* The response is sent; the worker waits for the next request.
SendResponse ==
    /\ pc = "done"
    /\ request' = NoRequest
    /\ pc' = "idle"
    /\ call' = NoCall
    /\ frame' = EmptyFrame
    /\ queries' = <<>>
    /\ components' = NoComponents
    /\ response' = NoResponse
    /\ UNCHANGED HRDPS_LAYER_ALTERNATES

Next ==
    \/ \E args \in WeatherRequests : GetWeather(args)
    \/ \E args \in BvlosRequests : BvlosAssessment(args)
    \/ SendQuery
    \/ \E var \in DOMAIN HRDPS_LAYERS \cup ComponentVars :
            \E v \in LayerValues(var) : ReceiveSuccess(v)
    \/ \E kind \in FailureKinds : ReceiveError(kind)
    \/ ReturnNotAvailable
    \/ SendResponse

Spec == Init /\ [][Next]_vars

SpecAlternates == InitAlternates /\ [][Next]_vars

-----------------------------------------------------------------------------
(* Properties *)

Done == pc = "done"
IsWeather == request.endpoint = "/weather"
IsBvlos == request.endpoint = "/bvlos-assessment"
Answered(code) == Done /\ response.code = code

\* The request's literal for k denotes a number, and it is outside [lo, hi]
\* (NaN is outside every interval).
LiteralOutside(args, k, lo, hi) ==
    /\ Has(args, k)
    /\ args[k] \in DOMAIN FloatLiterals
    /\ LET x == FloatLiterals[args[k]]
       IN  ~(x.kind = "num" /\ lo <= x.num /\ x.num <= hi)

OutsideEnvelope(args) ==
    \/ LiteralOutside(args, "lat", 4000, 8500)
    \/ LiteralOutside(args, "lon", -14500, -5000)

LiteralInside(args, k, lo, hi) ==
    /\ Has(args, k)
    /\ args[k] \in DOMAIN FloatLiterals
    /\ LET x == FloatLiterals[args[k]]
       IN  x.kind = "num" /\ lo <= x.num /\ x.num <= hi

\* Well-formed parameters and a coordinate inside the envelope.
WellFormedInside(req) ==
    /\ LiteralInside(req.args, "lat", 4000, 8500)
    /\ LiteralInside(req.args, "lon", -14500, -5000)
    /\ \A k \in {"max_wind_kts", "max_gust_kts"} :
          Has(req.args, k) => req.args[k] \in DOMAIN FloatLiterals

\* C1: a request to /weather or /bvlos-assessment whose latitude is outside
\* [40,85] or whose longitude is outside [-145,-50] is answered 400 whatever
\* its other parameters are, and no upstream query is issued for it.
C1_OutsideEnvelopeRejected ==
    (request.endpoint # "" /\ OutsideEnvelope(request.args)) =>
        /\ Answered(400)
        /\ queries = <<>>

\* A /bvlos-assessment request just north of the envelope, with a
\* caller-supplied wind limit, has been answered 400.
C1_Witness ==
    /\ IsBvlos
    /\ Has(request.args, "lat") /\ request.args["lat"] = "85.1"
    /\ Has(request.args, "max_wind_kts") /\ request.args["max_wind_kts"] = "15"
    /\ Answered(400)
    /\ queries = <<>>

\* The severity of an issue, from the rule that wrote it.
IssueSeverity(issue) ==
    CASE issue[1] = "Wind" /\ issue[2] = "speed" -> "unavailable"
      [] issue[1] = "Wind" /\ issue[2] # "speed" -> "exceeds"
      [] issue[1] = "Gusts" -> "exceeds"
      [] issue[1] = "Extreme" -> "below"
      [] issue[1] = "Heavy" -> "heavy"
      [] issue[1] = "Moderate" -> "moderate"
      [] OTHER -> "other"

Severities(issues) == {IssueSeverity(issues[i]) : i \in DOMAIN issues}

Local(name) == frame.res[name]
Resolved(name) == Has(frame.res, name) /\ Succeeded(frame.res[name])

\* The comparisons of the classifier, on the values the resolver returned.
WindSpeedMps ==
    IF Resolved("wind_result") THEN Local("wind_result").value
    ELSE calculate_wind_speed_direction(Local("u_result").value,
                                        Local("v_result").value).speed
WindResolved ==
    Resolved("wind_result") \/ (Resolved("u_result") /\ Resolved("v_result"))
WindOver ==
    /\ WindResolved
    /\ WindSpeedMps.kind = "num"
    /\ WindSpeedMps.num * KnotsFactor > frame.max_wind.num * 100000
GustOver ==
    /\ Resolved("gust_result")
    /\ Local("gust_result").value.kind = "num"
    /\ Local("gust_result").value.num * KnotsFactor > frame.max_gust.num * 100000
TooCold ==
    /\ Resolved("temp_result")
    /\ Local("temp_result").value.kind = "num"
    /\ Local("temp_result").value.num < -2000
PrecipOver(limit) ==
    /\ Resolved("precip_result")
    /\ Local("precip_result").value.kind = "num"
    /\ Local("precip_result").value.num > limit

\* C2: the status of /bvlos-assessment is the first-match reduction of the
\* final issue list: RED with "NO-GO: Conditions exceed safe limits" if an
\* issue has severity exceeds, below or heavy; otherwise YELLOW if an issue
\* has severity unavailable or moderate; otherwise GREEN with "GO:
\* Conditions within limits" exactly when the list is empty. Every threshold
\* violation (wind, gust, cold, heavy precipitation) forces RED.
C2_StatusReduction ==
    (IsBvlos /\ Answered(200)) =>
        LET body == response.body
            sev == Severities(body["issues"])
        IN  /\ IF sev \cap {"exceeds", "below", "heavy"} # {}
               THEN /\ body["status"] = "RED"
                    /\ body["recommendation"] = "NO-GO: Conditions exceed safe limits"
               ELSE IF sev \cap {"unavailable", "moderate"} # {}
               THEN body["status"] = "YELLOW"
               ELSE /\ (body["status"] = "GREEN") <=> (body["issues"] = <<>>)
                    /\ body["status"] = "GREEN" =>
                          body["recommendation"] = "GO: Conditions within limits"
            /\ (WindOver \/ GustOver \/ TooCold \/ PrecipOver(500)) =>
                    body["status"] = "RED"

\* An assessment whose wind speed is unavailable and whose temperature is
\* below the limit has been answered RED.
C2_Witness ==
    /\ IsBvlos /\ Answered(200)
    /\ ~WindResolved /\ TooCold /\ ~GustOver /\ ~PrecipOver(500)
    /\ Len(response.body["issues"]) = 2
    /\ response.body["status"] = "RED"

\* C3: every in-envelope request with well-formed parameters completes
\* with a 200 response, whatever each upstream layer answers.
C3_AlwaysAnswers200 ==
    (Done /\ WellFormedInside(request)) => response.code = 200

QueriesOf(var) == SelectSeq(queries, LAMBDA q : q.variable = var)

\* The locals that hold the result of resolving a variable.
LocalsOf(var) ==
    CASE var = "temperature" -> {"temp_result"}
      [] var = "wind_speed" -> {"wind_speed_result", "wind_result"}
      [] var = "wind_direction" -> {"wind_dir_result"}
      [] var = "wind_u" -> {"u_result"}
      [] var = "wind_v" -> {"v_result"}
      [] var = "wind_gust" -> {"gust_result"}
      [] var = "precip_accum" -> {"precip_result"}
      [] var = "cloud_cover" -> {"cloud_result"}
      [] var = "specific_humidity" -> {"humidity_result"}
      [] var = "pressure" -> {}

AllVariables == DOMAIN HRDPS_LAYERS \cup ComponentVars

\* The layer ids of a variable in the order of the claim: the primary
\* first, then the alternates as declared.
DeclaredOrder(var) ==
    LET alts == IF var \in DOMAIN HRDPS_LAYER_ALTERNATES
                THEN HRDPS_LAYER_ALTERNATES[var] ELSE <<>>
    IN  IF var \in DOMAIN HRDPS_LAYERS THEN <<HRDPS_LAYERS[var]>> \o alts ELSE alts

\* C4: one call of try_layer_with_alternates queries the layer ids in the
\* order primary, alternates as declared; each id at most once; nothing
\* after the first success; and it returns not_available only after every
\* id has been tried and has failed.
C4_ResolverOrder ==
    \A var \in AllVariables :
        LET qs == QueriesOf(var)
            ids == DeclaredOrder(var)
        IN  /\ Len(qs) <= Len(ids)
            /\ \A i \in DOMAIN qs : qs[i].layer = ids[i]
            /\ \A i, j \in DOMAIN qs : i # j => qs[i].layer # qs[j].layer
            /\ \A i \in DOMAIN qs : i < Len(qs) => qs[i].status = "error"
            /\ \A name \in LocalsOf(var) \cap DOMAIN frame.res :
                  IF Succeeded(frame.res[name])
                  THEN /\ qs # <<>>
                       /\ qs[Len(qs)].status = "success"
                       /\ frame.res[name].layer = qs[Len(qs)].layer
                  ELSE /\ frame.res[name].status = "not_available"
                       /\ Len(qs) = Len(ids)
                       /\ \A i \in DOMAIN qs : qs[i].status = "error"

\* A variable with two alternates was resolved by its first alternate:
\* the primary failed, the first alternate succeeded, the second was never
\* queried.
C4_Witness ==
    \E var \in AllVariables :
        /\ Len(DeclaredOrder(var)) = 3
        /\ Len(QueriesOf(var)) = 2
        /\ QueriesOf(var)[1].status = "error"
        /\ \E name \in LocalsOf(var) \cap DOMAIN frame.res :
              /\ Succeeded(frame.res[name])
              /\ frame.res[name].layer = DeclaredOrder(var)[2]

ComponentsServed ==
    /\ Has(components, "wind_u") /\ components["wind_u"].status = "success"
    /\ Has(components, "wind_v") /\ components["wind_v"].status = "success"

ComposedWind ==
    calculate_wind_speed_direction(components["wind_u"].value, components["wind_v"].value)

\* C5: with the layers the program ships, when the direct wind_speed layer
\* fails and the upstream serves both wind components, both endpoints
\* report the wind speed sqrt(u^2 + v^2) (and /weather the direction
\* (atan2(-u, -v) + 360) mod 360 when no direct direction resolved) instead
\* of reporting wind speed unavailable.
C5_ComposedFromComponents ==
    (Answered(200) /\ ComponentsServed) =>
        /\ IsWeather =>
              /\ Has(response.body, "wind_speed_mps")
              /\ response.body["wind_speed_mps"] = Round1(ComposedWind.speed, 100)
              /\ ~Resolved("wind_dir_result") =>
                    /\ Has(response.body, "wind_direction_deg")
                    /\ response.body["wind_direction_deg"] = RoundInt(ComposedWind.direction)
        /\ IsBvlos =>
              /\ Has(response.body["conditions"], "wind_speed_kts")
              /\ response.body["conditions"]["wind_speed_kts"] =
                    Round1(mps_to_knots(ComposedWind.speed), KnotsUnit)
              /\ \A i \in DOMAIN response.body["issues"] :
                    response.body["issues"][i] # WindUnavailableIssue

\* The temperature limits of the claim: min_temp_c and max_temp_c of the
\* request, -25 and 40 when absent.
ClaimedLimit(k, default) ==
    IF Has(request.args, k) THEN FloatLiterals[request.args[k]].num ELSE default

TemperatureIssues ==
    {i \in DOMAIN frame.issues : frame.issues[i][1] \in {"Extreme", "Temperature"}}

\* C6, as claimed: a resolved temperature is compared with min_temp_c and
\* max_temp_c: below the minimum or above the maximum there is a
\* temperature issue, within the two there is none.
C6_CallerLimits ==
    (IsBvlos /\ Answered(200) /\ Resolved("temp_result")
        /\ Local("temp_result").value.kind = "num") =>
        LET t == Local("temp_result").value.num
        IN  (t < ClaimedLimit("min_temp_c", -2500) \/ t > ClaimedLimit("max_temp_c", 4000))
                <=> (TemperatureIssues # {})

\* C6, amended: a resolved temperature is compared with the fixed limit
\* -20: strictly below it exactly one "Extreme cold" issue is appended, at
\* or above it none, whatever min_temp_c and max_temp_c the request
\* carries; there is no upper limit.
C6_FixedColdLimit ==
    (IsBvlos /\ Answered(200) /\ Resolved("temp_result")
        /\ Local("temp_result").value.kind = "num") =>
        LET t == Local("temp_result").value.num
        IN  /\ (t < -2000) <=> (TemperatureIssues # {})
            /\ Cardinality(TemperatureIssues) <= 1
            /\ \A i \in TemperatureIssues :
                  /\ frame.issues[i][1] = "Extreme"
                  /\ response.body["status"] = "RED"

\* A request with min_temp_c = -30 met a temperature of -22 and got the
\* cold issue.
C6_Witness ==
    /\ IsBvlos /\ Answered(200)
    /\ Has(request.args, "min_temp_c") /\ request.args["min_temp_c"] = "-30"
    /\ Resolved("temp_result")
    /\ Local("temp_result").value = Num(-2200)
    /\ TemperatureIssues # {}

IssuesEqualTo(text) == {i \in DOMAIN frame.issues : frame.issues[i] = text}

\* C7: "Wind speed data unavailable" is appended exactly when neither the
\* direct layer nor the derivation gives a wind speed; a gust, temperature
\* or precipitation that does not resolve appends nothing. So with the wind
\* speed missing and no resolved value over a limit the status is YELLOW,
\* and with the wind speed within its limit and every other variable either
\* missing or within limits it is GREEN.
C7_OnlyWindUnavailable ==
    (IsBvlos /\ Answered(200)) =>
        /\ Cardinality(IssuesEqualTo(WindUnavailableIssue)) = IF WindResolved THEN 0 ELSE 1
        /\ \A i \in DOMAIN frame.issues :
              /\ frame.issues[i][1] \in {"Wind", "Gusts", "Extreme", "Heavy", "Moderate"}
              /\ frame.issues[i][1] = "Gusts" => Resolved("gust_result")
              /\ frame.issues[i][1] = "Extreme" => Resolved("temp_result")
              /\ frame.issues[i][1] \in {"Heavy", "Moderate"} => Resolved("precip_result")
        /\ response.body["issues"] = frame.issues
        /\ (~WindResolved /\ ~GustOver /\ ~TooCold /\ ~PrecipOver(500)) =>
                response.body["status"] = "YELLOW"
        /\ (WindResolved /\ ~WindOver /\ ~GustOver /\ ~TooCold /\ ~PrecipOver(100)) =>
                response.body["status"] = "GREEN"

\* Only the wind speed resolved, within its limit; gust, temperature and
\* precipitation did not: the status is GREEN.
C7_Witness ==
    /\ IsBvlos /\ Answered(200)
    /\ WindResolved /\ ~WindOver
    /\ ~Resolved("gust_result") /\ ~Resolved("temp_result") /\ ~Resolved("precip_result")
    /\ response.body["status"] = "GREEN"

\* The name /weather gives a variable in unavailable_data, the local that
\* holds its result and its value fields.
WeatherVariables ==
    {[name |-> "temperature", local |-> "temp_result", fields |-> {"temperature_c"}],
     [name |-> "wind_speed", local |-> "wind_speed_result",
      fields |-> {"wind_speed_mps", "wind_speed_kts"}],
     [name |-> "wind_direction", local |-> "wind_dir_result",
      fields |-> {"wind_direction_deg"}],
     [name |-> "wind_gust", local |-> "gust_result",
      fields |-> {"wind_gust_mps", "wind_gust_kts"}],
     [name |-> "precipitation", local |-> "precip_result", fields |-> {"precipitation_mm"}],
     [name |-> "cloud_cover", local |-> "cloud_result", fields |-> {"cloud_cover_pct"}],
     [name |-> "humidity", local |-> "humidity_result",
      fields |-> {"specific_humidity_kgkg"}]}

Listed(body) ==
    IF Has(body, "unavailable_data") THEN body["unavailable_data"] ELSE <<>>

\* C8: in every 200 response of /weather each variable is named in
\* unavailable_data exactly when it did not resolve, which is exactly when
\* its value fields are absent; no name is listed twice; and the key is
\* absent when everything resolved.
C8_UnavailableDataExact ==
    (IsWeather /\ Answered(200)) =>
        LET body == response.body
            listed == Listed(body)
        IN  /\ \A w \in WeatherVariables :
                  LET named == \E i \in DOMAIN listed : listed[i] = w.name
                  IN  /\ named <=> (w.fields \cap DOMAIN body = {})
                      /\ ~named <=> (w.fields \subseteq DOMAIN body)
                      /\ named <=> ~Resolved(w.local)
            /\ \A i \in DOMAIN listed :
                  /\ \E w \in WeatherVariables : listed[i] = w.name
                  /\ \A j \in DOMAIN listed : i # j => listed[i] # listed[j]
            /\ Has(body, "unavailable_data") <=> (\E w \in WeatherVariables : ~Resolved(w.local))

\* A 200 response of /weather with everything resolved and no
\* unavailable_data key.
C8_Witness ==
    /\ IsWeather /\ Answered(200)
    /\ \A w \in WeatherVariables : Resolved(w.local)
    /\ ~Has(response.body, "unavailable_data")

\* The variables every request resolves.
RequestVariables ==
    IF IsWeather
    THEN {"temperature", "wind_speed", "wind_direction", "wind_gust", "precip_accum",
          "cloud_cover", "specific_humidity"}
    ELSE {"wind_speed", "wind_gust", "temperature", "precip_accum"}

\* C9: the queries of one request are issued concurrently: while a query
\* is waiting for its answer, the query of every other variable of the
\* request has been issued too, so a slow layer does not delay the start of
\* the others.
C9_IssuedConcurrently ==
    (Running /\ call.inflight) =>
        \A var \in RequestVariables : QueriesOf(var) # <<>>

\* C10: the fourth reduction rule is never taken: the recommendation is
\* never "CAUTION: Minor concerns noted", and a non-empty issue list gives
\* RED or the YELLOW of "CAUTION: Review conditions carefully".
C10_FourthRuleUnreachable ==
    (IsBvlos /\ Answered(200)) =>
        LET body == response.body
        IN  /\ body["recommendation"] # "CAUTION: Minor concerns noted"
            /\ body["issues"] # <<>> =>
                  \/ body["status"] = "RED"
                  \/ /\ body["status"] = "YELLOW"
                     /\ body["recommendation"] = "CAUTION: Review conditions carefully"

\* An assessment whose only issue is moderate precipitation was answered
\* YELLOW by the second rule.
C10_Witness ==
    /\ IsBvlos /\ Answered(200)
    /\ Len(response.body["issues"]) = 1
    /\ response.body["issues"][1][1] = "Moderate"
    /\ response.body["recommendation"] = "CAUTION: Review conditions carefully"

====
